---- MODULE Spec2Model ----
(***************************************************************************)
(* FactoryManager (src/factorymanager.py): the container lifecycle         *)
(* manager (start / stop / bootstrap installer), the execution gateway     *)
(* (__command), the domain methods and the scoped use (__enter__ /         *)
(* __exit__), run against a container runtime that holds at most one       *)
(* container per name.                                                     *)
(***************************************************************************)
EXTENDS Integers, Sequences, FiniteSets, TLC

\* ------------------------------------------------------------------ bounds
\* Longest captured process output, in bytes.
MaxOut == 2
\* Largest exit code an in-container process reports.
MaxExit == 1
\* Longest captured output of an installer step, in bytes.
MaxStepOut == 1
\* Largest magnitude of an integer argument (a pid, a number of steps).
MaxInt == 1

\* --------------------------------------------------------------- constants
Managers == {1, 2}
\* The manager instances that run in the sequential specification.
Sequential == {1}

robotgo_cli_path == "/usr/local/bin/robotgo-cli"

\* Bytes a process may print: a letter, two whitespace bytes, and a byte
\* that is no valid UTF-8.
Bytes == {"a", " ", "xFF"}
Whitespace == {" ", "\n", "\t"}
InvalidBytes == {"xFF"}

ExitCodes == 0..MaxExit

RECURSIVE SeqsUpTo(_, _)
SeqsUpTo(S, n) ==
  IF n = 0 THEN {<<>>}
  ELSE LET shorter == SeqsUpTo(S, n - 1)
       IN  shorter \cup {Append(s, b) : s \in {t \in shorter : Len(t) = n - 1}, b \in S}

Outputs == SeqsUpTo(Bytes, MaxOut)

\* What an installer step (curl, chmod) may print.
StepOutputs == SeqsUpTo(Bytes, MaxStepOut)

\* ----------------------------------------------------------- pure helpers
\* bytes.decode('utf-8'): strict decoding fails on an invalid byte.
Decodable(bytes) == \A i \in 1..Len(bytes) : bytes[i] \notin InvalidBytes

Decode(bytes) == [i \in 1..Len(bytes) |-> bytes[i]]

RECURSIVE LStrip(_)
LStrip(s) == IF s # <<>> /\ Head(s) \in Whitespace THEN LStrip(Tail(s)) ELSE s

RECURSIVE RStrip(_)
RStrip(s) ==
  IF s # <<>> /\ s[Len(s)] \in Whitespace THEN RStrip(SubSeq(s, 1, Len(s) - 1)) ELSE s

\* str.strip()
Strip(s) == RStrip(LStrip(s))

\* ' '.join(cmd)
RECURSIVE Join(_)
Join(toks) ==
  IF toks = <<>> THEN ""
  ELSE IF Len(toks) = 1 THEN toks[1]
  ELSE toks[1] \o " " \o Join(Tail(toks))

\* ','.join(mods)
RECURSIVE JoinBy(_, _)
JoinBy(sep, toks) ==
  IF toks = <<>> THEN ""
  ELSE IF Len(toks) = 1 THEN toks[1]
  ELSE toks[1] \o sep \o JoinBy(sep, Tail(toks))

\* A Python str, held as its sequence of characters, as one token.
RECURSIVE Text(_)
Text(chars) == IF chars = <<>> THEN "" ELSE Head(chars) \o Text(Tail(chars))

\* str(n) of an int
RECURSIVE NatToStr(_)
NatToStr(n) ==
  LET digit == <<"0", "1", "2", "3", "4", "5", "6", "7", "8", "9">>[(n % 10) + 1]
  IN  IF n < 10 THEN digit ELSE NatToStr(n \div 10) \o digit

IntToStr(n) == IF n < 0 THEN "-" \o NatToStr(-n) ELSE NatToStr(n)

\* ------------------------------------------------------------- exceptions
NoExc == [kind |-> "none", status |-> "", cmd |-> "", out |-> <<>>]

Exc(k) == [kind |-> k, status |-> "", cmd |-> "", out |-> <<>>]

\* line 110: the message carries the status read by the second reload
StartupFailure(st) == [kind |-> "StartupFailure", status |-> st, cmd |-> "", out |-> <<>>]

\* lines 66 and 72: the message carries the step and its decoded output
BootstrapFailure(step, text) ==
  [kind |-> "BootstrapFailure", status |-> "", cmd |-> step, out |-> text]

\* line 144: the message carries the joined command and the decoded output
CommandFailure(cmd, text) ==
  [kind |-> "CommandFailure", status |-> "", cmd |-> Join(cmd), out |-> text]

\* ------------------------------------------------------------------ state
VARIABLES
  cid,        \* runtime: id of the container with the configured name, 0 if none
  ncreated,   \* runtime: containers created by a create request
  rstatus,    \* runtime: status of that container
  file,       \* container file system: state of robotgo_cli_path
  container,  \* self.container of each manager: 0 is None, else the id
  hstatus,    \* self.container.status: the status read by the last refresh
  pc,         \* where each manager's control is: "idle" between calls, a step
              \* of start(), "exec" in the gateway, "done" with a domain
              \* call's outcome in the caller's hands
  scope,      \* the with-block of each manager: "out", "entering", "body"
  sc,         \* the start() call in progress: what it did so far
  req,        \* the domain call in progress: its validated, encoded request
  last,       \* the last completed call of each manager and its outcome, while
              \* no call is in progress
  phase       \* session state: Uninitialized, Ready, Failed, Stopped

vars == <<cid, ncreated, rstatus, file, container, hstatus, pc, scope, sc, req, last, phase>>

runtime == <<cid, ncreated, rstatus, file>>

NoStop == [site |-> "none", hadHandle |-> FALSE, signalled |-> FALSE,
           sigErr |-> FALSE, raised |-> NoExc]

NoCall == [op |-> "none", exc |-> NoExc]

\* What start() needs to know of the call completed before it.
Summary(rec) ==
  [op |-> rec.op, kind |-> rec.exc.kind,
   cid |-> IF rec.op = "start" THEN rec.cid ELSE 0,
   dl |-> IF rec.op = "start" THEN rec.dl ELSE 0]

NoPending == [op |-> "none", input |-> <<>>, args |-> <<>>]

\* No installer step has failed.
NoFail == [step |-> "none", exit_code |-> 0, out |-> <<>>]

NoStart == [via |-> "none", before |-> Summary(NoCall), orig |-> NoExc, stops |-> 0, creates |-> 0,
            found |-> FALSE, sigs |-> 0, obs2 |-> "none", probe |-> "none",
            dl |-> 0, stop |-> NoStop,
            trace |-> <<>>, lookup |-> "none", obs1 |-> "none", failed |-> NoFail]

\* The call `call` takes the step `name` of start().
Step(call, name) == [call EXCEPT !.trace = Append(@, name)]

Init ==
  /\ cid \in {0, 1}
  /\ ncreated = 0
  /\ rstatus \in IF cid = 0 THEN {"none"} ELSE {"created", "running", "exited"}
  /\ file \in IF cid = 0 THEN {"absent"} ELSE {"absent", "installed"}
  /\ container = [m \in Managers |-> 0]
  /\ hstatus = [m \in Managers |-> "none"]
  /\ pc = [m \in Managers |-> "idle"]
  /\ scope = [m \in Managers |-> "out"]
  /\ sc = [m \in Managers |-> NoStart]
  /\ req = [m \in Managers |-> NoPending]
  /\ last = [m \in Managers |-> NoCall]
  /\ phase = [m \in Managers |-> "Uninitialized"]


\* ------------------------------------------------------------------ stop()
Running(st) == st = "running"

\* line 122: `if self.container:`
HasHandle_Never(h) == FALSE

HasHandle(h) == h # 0

\* line 126: `except Exception` catches every error the stop signal raises
StopCatches_OnlyNotFound(e) == e.kind = "NotFound"

StopCatches(e) == e.kind # "none"

\* stop() called from `site`; sigErr says whether the runtime's stop signal
\* raises. The record says what stop() did and what it raised to its caller.
StopCall(m, site, sigErr) ==
  IF HasHandle(container[m])
  THEN [site |-> site, hadHandle |-> TRUE, signalled |-> TRUE, sigErr |-> sigErr,
        raised |-> IF sigErr /\ ~StopCatches(Exc("APIError"))
                   THEN Exc("APIError") ELSE NoExc]
  ELSE [site |-> site, hadHandle |-> FALSE, signalled |-> FALSE, sigErr |-> FALSE,
        raised |-> NoExc]

\* The runtime's status after the stop() described by rec.
StatusAfterStop(rec) ==
  IF rec.signalled /\ ~rec.sigErr /\ Running(rstatus) THEN "exited" ELSE rstatus

Completed(m, rec) == last' = [last EXCEPT ![m] = rec]

\* A direct call of stop().
Stop(m) ==
  /\ pc[m] = "idle"
  /\ scope[m] = "out"
  /\ \E sigErr \in BOOLEAN :
       LET rec == StopCall(m, "direct", sigErr) IN
       /\ rstatus' = StatusAfterStop(rec)
       /\ Completed(m, [op |-> "stop", exc |-> rec.raised, stop |-> rec,
                        before |-> Summary(last[m])])
       /\ phase' = [phase EXCEPT ![m] = "Stopped"]
  /\ UNCHANGED <<cid, ncreated, file, container, hstatus, pc, scope, sc, req>>

\* ----------------------------------------------------------------- start()
Goto(m, p) == pc' = [pc EXCEPT ![m] = p]

\* A failure inside the try block of start(): control goes to the handler.
Raise(m, call, e) ==
  /\ sc' = [sc EXCEPT ![m] = [call EXCEPT !.orig = e]]
  /\ Goto(m, "except")

\* The with statement runs its body exactly when __enter__ returned
\* (lines 323-325: __enter__ lets the failure of start() through).
EntersBody_Always(e) == TRUE

EntersBody(e) == e = NoExc

\* start() returns or raises to its caller.
StartDone(m, call, e) ==
  /\ Completed(m, [op |-> "start", exc |-> e, cid |-> container[m]] @@ call)
  /\ sc' = [sc EXCEPT ![m] = NoStart]
  /\ phase' = [phase EXCEPT ![m] = IF e = NoExc THEN "Ready" ELSE "Failed"]
  /\ Goto(m, "idle")
  /\ scope' = [scope EXCEPT ![m] =
                 IF call.via = "enter" /\ EntersBody(e) THEN "body" ELSE "out"]

\* A direct call of start().
Start(m) ==
  /\ pc[m] = "idle"
  /\ scope[m] = "out"
  /\ sc' = [sc EXCEPT ![m] = [NoStart EXCEPT !.via = "direct", !.before = Summary(last[m])]]
  /\ Completed(m, NoCall)
  /\ Goto(m, "get")
  /\ UNCHANGED <<runtime, container, hstatus, scope, req, phase>>

\* line 85: the lookup finds a container exactly when one has the name
Found_Never(c) == FALSE

Found(c) == c # 0

\* lines 85, 87: what the lookup raises, NotFound when no container has
\* the name
Lookup(err) ==
  IF err THEN Exc("APIError") ELSE IF Found(cid) THEN NoExc ELSE Exc("NotFound")

\* line 87: `except NotFound` is the only way to the create request
CreatesOn_AnyError(e) == e # NoExc

CreatesOn(e) == e.kind = "NotFound"

\* lines 84-88: self.client.containers.get(self.container_name)
Get(m) ==
  /\ pc[m] = "get"
  /\ \E err \in BOOLEAN :
       LET e    == Lookup(err)
           call == [Step(sc[m], "get") EXCEPT
                      !.lookup = IF e = NoExc THEN "found" ELSE e.kind] IN
       IF e = NoExc
       THEN /\ container' = [container EXCEPT ![m] = cid]
            /\ hstatus' = [hstatus EXCEPT ![m] = rstatus]
            /\ sc' = [sc EXCEPT ![m] = [call EXCEPT !.found = TRUE]]
            /\ Goto(m, "reload1")
       ELSE IF CreatesOn(e)
       THEN /\ sc' = [sc EXCEPT ![m] = call]
            /\ Goto(m, "run")
            /\ UNCHANGED <<container, hstatus>>
       ELSE /\ Raise(m, call, e)
            /\ UNCHANGED <<container, hstatus>>
  /\ UNCHANGED <<runtime, scope, req, last, phase>>

\* line 91: the create request carries name=self.container_name, so the
\* runtime refuses it while a container has that name. cid is the newest
\* container of the name, 0 when there is none.
Conflicts_Never(c) == FALSE

Conflicts(c) == c # 0

\* lines 89-101: self.client.containers.run(..., detach=True). The runtime
\* refuses a second container of the same name. A failed request may leave
\* the container created (created, then the start failed).
Run(m) ==
  /\ pc[m] = "run"
  /\ LET call == [Step(sc[m], "run") EXCEPT !.creates = @ + 1] IN
     \E r \in {"running", "exited", "err", "err_created"} :
       IF Conflicts(cid) \/ r = "err"
       THEN /\ Raise(m, call, Exc("APIError"))
            /\ UNCHANGED <<runtime, container, hstatus>>
       ELSE /\ cid' = cid + 1
            /\ ncreated' = ncreated + 1
            /\ file' = "absent"
            /\ IF r = "err_created"
               THEN /\ rstatus' = "created"
                    /\ Raise(m, call, Exc("APIError"))
                    /\ UNCHANGED <<container, hstatus>>
               ELSE /\ rstatus' = r
                    /\ container' = [container EXCEPT ![m] = cid']
                    /\ hstatus' = [hstatus EXCEPT ![m] = "created"]
                    /\ sc' = [sc EXCEPT ![m] = call]
                    /\ Goto(m, "reload1")
  /\ UNCHANGED <<scope, req, last, phase>>

\* lines 103-104: reload(), then the first status check
Reload1(m) ==
  /\ pc[m] = "reload1"
  /\ \E err \in BOOLEAN :
       IF err
       THEN /\ Raise(m, Step(sc[m], "reload1"), Exc("APIError"))
            /\ UNCHANGED hstatus
       ELSE /\ hstatus' = [hstatus EXCEPT ![m] = rstatus]
            /\ sc' = [sc EXCEPT ![m] = [Step(sc[m], "reload1") EXCEPT !.obs1 = hstatus'[m]]]
            /\ Goto(m, IF Running(hstatus'[m]) THEN "probe" ELSE "startsig")
  /\ UNCHANGED <<runtime, container, scope, req, last, phase>>

\* lines 106-107: the start signal and the fixed wait. A started container
\* may have exited again by the time the wait is over.
StartSignal(m) ==
  /\ pc[m] = "startsig"
  /\ LET call == [Step(sc[m], "startsig") EXCEPT !.sigs = @ + 1] IN
     \E r \in {"running", "exited", "err"} :
       IF r = "err"
       THEN /\ Raise(m, call, Exc("APIError"))
            /\ UNCHANGED rstatus
       ELSE /\ rstatus' = r
            /\ sc' = [sc EXCEPT ![m] = call]
            /\ Goto(m, "reload2")
  /\ UNCHANGED <<cid, ncreated, file, container, hstatus, scope, req, last, phase>>

\* line 109: the second status check
NotRunning_Never(st) == FALSE

NotRunning(st) == st # "running"

\* lines 109-110: a container that is still not running is not started
\* again
Retries_Once(call) == call.sigs < 2

Retries(call) == FALSE

\* lines 108-110: reload(), then the second status check
Reload2(m) ==
  /\ pc[m] = "reload2"
  /\ \E err \in BOOLEAN :
       IF err
       THEN /\ Raise(m, Step(sc[m], "reload2"), Exc("APIError"))
            /\ UNCHANGED hstatus
       ELSE /\ hstatus' = [hstatus EXCEPT ![m] = rstatus]
            /\ LET call == [Step(sc[m], "reload2") EXCEPT !.obs2 = hstatus'[m]] IN
               IF NotRunning(hstatus'[m])
               THEN IF Retries(call)
                    THEN /\ sc' = [sc EXCEPT ![m] = call]
                         /\ Goto(m, "startsig")
                    ELSE Raise(m, call, StartupFailure(hstatus'[m]))
               ELSE /\ sc' = [sc EXCEPT ![m] = call]
                    /\ Goto(m, "probe")
  /\ UNCHANGED <<runtime, container, scope, req, last, phase>>


\* -------------------------------------------------- bootstrap installer
\* line 55: `if exec_result.exit_code == 0: return`
ProbeSkips_Never(exit_code) == FALSE

ProbeSkips(exit_code) == exit_code = 0

\* `ls <path>` in the container: 0 when the path exists, 2 when it does not
LsExit(f) == IF f = "absent" THEN 2 ELSE 0

\* exec_run raises when the runtime fails or the container is not running
ExecRaises(err) == err \/ ~Running(rstatus)

\* The failure an installer step raises for a non-zero exit (lines 65-66,
\* 71-72): the output is decoded first.
StepFailure(step, out) ==
  IF Decodable(out) THEN BootstrapFailure(step, Decode(out))
  ELSE Exc("UnicodeDecodeError")

\* line 112: start() calls the installer on every path that found the
\* container running
Installs_OnlyCreated(call) == call.creates = 1

Installs(call) == TRUE

\* A non-zero exit of an installer step, as the runtime reported it.
Failed(call, step, exit_code, out) ==
  [call EXCEPT !.failed = [step |-> step, exit_code |-> exit_code, out |-> out]]

\* lines 112, 53-57: the call of the installer and its existence probe
Probe(m) ==
  /\ pc[m] = "probe"
  /\ IF ~Installs(sc[m])
     THEN StartDone(m, sc[m], NoExc)
     ELSE \E err \in BOOLEAN :
       IF ExecRaises(err)
       THEN /\ Raise(m, Step(sc[m], "probe"), Exc("APIError"))
            /\ UNCHANGED <<last, phase, scope>>
       ELSE LET call == [Step(sc[m], "probe") EXCEPT
                           !.probe = IF LsExit(file) = 0 THEN "present" ELSE "absent"] IN
            IF ProbeSkips(LsExit(file))
            THEN StartDone(m, call, NoExc)
            ELSE /\ sc' = [sc EXCEPT ![m] = call]
                 /\ Goto(m, "curl")
                 /\ UNCHANGED <<last, phase, scope>>
  /\ UNCHANGED <<runtime, container, hstatus, req>>

\* lines 62-66: the download. `curl -o` that succeeds leaves the whole file,
\* with the mode the path had; one that fails may leave a partial file.
Curl(m) ==
  /\ pc[m] = "curl"
  /\ \E err \in BOOLEAN :
       IF ExecRaises(err)
       THEN /\ Raise(m, Step(sc[m], "curl"), Exc("APIError"))
            /\ UNCHANGED file
       ELSE LET call == [Step(sc[m], "curl") EXCEPT !.dl = @ + 1] IN
            \E exit_code \in ExitCodes, out \in StepOutputs, partial \in BOOLEAN :
              IF exit_code # 0
              THEN /\ file' = IF partial THEN "partial" ELSE file
                   /\ Raise(m, Failed(call, "curl", exit_code, out),
                            StepFailure("curl", out))
              ELSE /\ file' = IF file = "installed" THEN "installed" ELSE "complete"
                   /\ sc' = [sc EXCEPT ![m] = call]
                   /\ Goto(m, "chmod")
  /\ UNCHANGED <<cid, ncreated, rstatus, container, hstatus, scope, req, last, phase>>

\* lines 68-74: mark the file executable, then return
Chmod(m) ==
  /\ pc[m] = "chmod"
  /\ \E err \in BOOLEAN :
       LET call == Step(sc[m], "chmod") IN
       IF ExecRaises(err)
       THEN /\ Raise(m, call, Exc("APIError"))
            /\ UNCHANGED <<file, last, phase, scope>>
       ELSE \E exit_code \in ExitCodes, out \in StepOutputs :
              IF exit_code # 0
              THEN /\ Raise(m, Failed(call, "chmod", exit_code, out),
                            StepFailure("chmod", out))
                   /\ UNCHANGED <<file, last, phase, scope>>
              ELSE /\ file' = IF file = "complete" THEN "installed" ELSE file
                   /\ StartDone(m, call, NoExc)
  /\ UNCHANGED <<cid, ncreated, rstatus, container, hstatus, req>>

\* --------------------------------------------- start(): the except handler
\* line 115: self.stop()
Cleanup_Skipped(m, sigErr) == NoStop

Cleanup(m, sigErr) == StopCall(m, "cleanup", sigErr)

\* line 116: a bare `raise` re-raises the failure being handled, unless the
\* handler itself raised
Reraised(orig, rec) == IF rec.raised # NoExc THEN rec.raised ELSE orig

\* lines 113-116
Except(m) ==
  /\ pc[m] = "except"
  /\ \E sigErr \in BOOLEAN :
       LET rec  == Cleanup(m, sigErr)
           call == [Step(sc[m], "except") EXCEPT !.stop = rec,
                                 !.stops = IF rec.site = "none" THEN 0 ELSE 1] IN
       /\ rstatus' = StatusAfterStop(rec)
       /\ StartDone(m, call, Reraised(sc[m].orig, rec))
  /\ UNCHANGED <<cid, ncreated, file, container, hstatus, req>>

\* ------------------------------------------------------------ scoped use
\* lines 323-325: __enter__ calls start(); a failure of start() leaves the
\* with statement before its body, without __exit__
Enter(m) ==
  /\ pc[m] = "idle"
  /\ scope[m] = "out"
  /\ sc' = [sc EXCEPT ![m] = [NoStart EXCEPT !.via = "enter", !.before = Summary(last[m])]]
  /\ scope' = [scope EXCEPT ![m] = "entering"]
  /\ Completed(m, NoCall)
  /\ Goto(m, "get")
  /\ UNCHANGED <<runtime, container, hstatus, req, phase>>

\* The ways control leaves the body of the with statement (example.py lines
\* 34-41): the end of the block, an early return, the failure of a domain
\* call that the block does not catch, or another failure raised in it.
BodyExits(m) ==
  {[path |-> "normal", exc |-> NoExc], [path |-> "return", exc |-> NoExc],
   [path |-> "raise", exc |-> Exc("BodyError")]}
  \cup (IF last[m].op \notin {"start", "stop", "exit", "none"} /\ last[m].exc # NoExc
        THEN {[path |-> "raise", exc |-> last[m].exc]} ELSE {})

\* line 328: self.stop(), whatever exc_type is
ExitStop_OnlyOnSuccess(m, exc, sigErr) ==
  IF exc = NoExc THEN StopCall(m, "exit", sigErr) ELSE NoStop

ExitStop(m, exc, sigErr) == StopCall(m, "exit", sigErr)

\* lines 327-328: __exit__ has no return statement; None does not suppress
\* the failure of the body
ExitSuppresses_Always == TRUE

ExitSuppresses == FALSE

\* lines 327-328: control leaves the body and the with statement runs
\* __exit__
Exit(m) ==
  /\ pc[m] \in {"idle", "done"}
  /\ scope[m] = "body"
  /\ \E how \in BodyExits(m), sigErr \in BOOLEAN :
       LET rec == ExitStop(m, how.exc, sigErr) IN
       /\ rstatus' = StatusAfterStop(rec)
       /\ Completed(m, [op |-> "exit", path |-> how.path, bodyExc |-> how.exc,
                        stop |-> rec,
                        exc |-> IF rec.raised # NoExc THEN rec.raised
                                ELSE IF ExitSuppresses THEN NoExc ELSE how.exc])
       /\ phase' = [phase EXCEPT ![m] = IF rec.site = "none" THEN @ ELSE "Stopped"]
  /\ scope' = [scope EXCEPT ![m] = "out"]
  /\ Goto(m, "idle")
  /\ UNCHANGED <<cid, ncreated, file, container, hstatus, sc, req>>


\* ------------------------------------------------------ execution gateway
\* What the runtime answers to one exec_run: it raises, or the process ran
\* and left an exit code and its output.
Responses ==
  {[err |-> TRUE, exit_code |-> 0, out |-> <<>>]}
  \cup [err : {FALSE}, exit_code : ExitCodes, out : Outputs]

\* A domain call that raised before the gateway was reached.
Rejected(e) ==
  [exc |-> e, cmd |-> <<>>, attempted |-> FALSE, spawned |-> FALSE,
   exit_code |-> -1, out |-> <<>>, returned |-> FALSE, ret |-> <<>>]

\* lines 139-145: __command(command_args) on the handle of manager m, with
\* rsp the runtime's answer to exec_run
Command(m, command_args, rsp) ==
  LET cmd  == <<robotgo_cli_path>> \o command_args
      base == [Rejected(NoExc) EXCEPT !.cmd = cmd]
  IN  IF ~HasHandle(container[m])
      THEN [base EXCEPT !.exc = Exc("AttributeError")]
      ELSE IF ExecRaises(rsp.err)
      THEN [base EXCEPT !.exc = Exc("APIError"), !.attempted = TRUE]
      ELSE LET ran == [base EXCEPT !.attempted = TRUE, !.spawned = TRUE,
                                   !.exit_code = rsp.exit_code, !.out = rsp.out]
           IN  IF ~Decodable(rsp.out)
               THEN [ran EXCEPT !.exc = Exc("UnicodeDecodeError")]
               ELSE IF rsp.exit_code # 0
               THEN [ran EXCEPT !.exc = CommandFailure(cmd, Decode(rsp.out))]
               ELSE [ran EXCEPT !.returned = TRUE, !.ret = Strip(Decode(rsp.out))]

\* lines 139-145: __command reads self.container and never assigns it,
\* whatever the outcome of the command
HandleAfter_DroppedOnFailure(m, result) == IF result.exc # NoExc THEN 0 ELSE container[m]

HandleAfter(m, result) == container[m]

\* The gateway step of a domain call: exec_run and what __command makes of
\* its answer (lines 141-145).
Gateway(m) ==
  /\ pc[m] = "exec"
  /\ \E rsp \in Responses :
       LET result == Command(m, req[m].args, rsp) IN
       /\ Completed(m, [op |-> req[m].op, input |-> req[m].input] @@ result)
       /\ container' = [container EXCEPT ![m] = HandleAfter(m, result)]
  /\ req' = [req EXCEPT ![m] = NoPending]
  /\ Goto(m, "done")
  /\ UNCHANGED <<runtime, hstatus, scope, sc, phase>>

\* The caller has the result or the failure of a domain call and goes on
\* (operatorExample.py catches the failure of an action and continues).
Return(m) ==
  /\ pc[m] = "done"
  /\ Completed(m, NoCall)
  /\ Goto(m, "idle")
  /\ UNCHANGED <<runtime, container, hstatus, scope, sc, req, phase>>

\* A caller may call a domain method whenever no call of the manager is in
\* progress, inside or outside a with block.
Callable(m) == pc[m] = "idle" /\ scope[m] \in {"out", "body"}

\* A domain method is called: it validates its arguments and either raises
\* or hands the encoded arguments to the gateway. It changes nothing of the
\* manager or the runtime.
DomainCall(m, op, input, valid, args) ==
  /\ IF valid
     THEN /\ req' = [req EXCEPT ![m] = [op |-> op, input |-> input, args |-> args]]
          /\ Goto(m, "exec")
          /\ Completed(m, NoCall)
     ELSE /\ Completed(m, [op |-> op, input |-> input]
                          @@ Rejected(Exc("ValidationError")))
          /\ Goto(m, "done")
          /\ UNCHANGED req
  /\ UNCHANGED <<runtime, container, hstatus, scope, sc, phase>>

\* ------------------------------------------------------- domain methods
Buttons == {"left", "right", "middle", "wheelLeft", "wheelRight"}

\* The button values callers pass: the five buttons and two that are none.
ButtonInputs == Buttons \cup {"Left", ""}

ToggleStates == {"down", "up"}

StateInputs == ToggleStates \cup {"pressed"}

\* line 167
ValidButton_Any(button) == TRUE

ValidButton(button) == button \in Buttons

\* line 194
ValidState(state) == state \in ToggleStates

\* lines 160-172
mouse_click(m) ==
  /\ Callable(m)
  /\ \E button \in ButtonInputs, double \in BOOLEAN :
       DomainCall(m, "mouse_click", [button |-> button, double |-> double],
                  ValidButton(button),
                  <<"mouse", "click", "--button", button>>
                    \o (IF double THEN <<"--double", "true">> ELSE <<>>))

\* lines 187-196: only the state is checked
mouse_toggle(m) ==
  /\ Callable(m)
  /\ \E button \in ButtonInputs, state \in StateInputs :
       DomainCall(m, "mouse_toggle", [button |-> button, state |-> state],
                  ValidState(state),
                  <<"mouse", "toggle", "--button", button, "--state", state>>)

\* lines 268-272: a method with no argument to validate
screen_size(m) ==
  /\ Callable(m)
  /\ DomainCall(m, "screen_size", [none |-> TRUE], TRUE, <<"screen", "size">>)

\* An optional argument: <<>> is None, <<v>> is the value v.
None == <<>>

Directions == {"up", "down", "left", "right"}

DirectionInputs == Directions \cup {"diagonal"}

\* The int values callers pass for a pid or a number of steps.
IntInputs == (0 - MaxInt) .. MaxInt

\* line 181
ValidDirection(direction) == direction \in Directions

\* line 183, for an int
ValidSteps_NonNegative(steps) == steps >= 0

ValidSteps(steps) == ~(steps < 1)

\* lines 174-185
mouse_scroll(m) ==
  /\ Callable(m)
  /\ \E direction \in DirectionInputs, steps \in IntInputs :
       DomainCall(m, "mouse_scroll", [direction |-> direction, steps |-> steps],
                  ValidDirection(direction) /\ ValidSteps(steps),
                  <<"mouse", "scroll", "--direction", direction,
                    "--steps", IntToStr(steps)>>)

\* The text, key and modifier values callers pass: a value that is no str
\* (None), and the strs "", " ", "a" and " a" as their characters.
Str(chars) == [isstr |-> TRUE, chars |-> chars]

NotAStr == [isstr |-> FALSE, chars |-> <<>>]

TextInputs == {NotAStr} \cup {Str(c) : c \in {<<>>, <<" ">>, <<"a">>, <<" ", "a">>}}

\* The lists of modifiers callers pass: none, one, two, and one with a
\* blank in it.
ModsInputs ==
  {<<>>, <<Str(<<"a">>)>>, <<Str(<<"a">>), Str(<<" ", "a">>)>>,
   <<Str(<<"a">>), Str(<<" ">>)>>}

\* lines 206, 218, 236, 312: isinstance(text, str) and text.strip()
ValidText_Unstripped(text) == text.isstr /\ text.chars # <<>>

ValidText(text) == text.isstr /\ Strip(text.chars) # <<>>

\* line 222
ValidMods(mods) == \A i \in 1..Len(mods) : ValidText(mods[i])

\* lines 199-208
keyboard_type(m) ==
  /\ Callable(m)
  /\ \E text \in TextInputs :
       DomainCall(m, "keyboard_type", [text |-> text], ValidText(text),
                  <<"keyboard", "type", "--text", Text(text.chars)>>)

\* lines 210-225: the modifiers are checked and joined when there are any
keyboard_tap(m) ==
  /\ Callable(m)
  /\ \E key \in TextInputs, mods \in ModsInputs :
       DomainCall(m, "keyboard_tap", [text |-> key, mods |-> mods],
                  ValidText(key) /\ (mods # <<>> => ValidMods(mods)),
                  <<"keyboard", "tap", "--key", Text(key.chars)>>
                    \o (IF mods # <<>>
                        THEN <<"--mods",
                               JoinBy(",", [i \in 1..Len(mods) |-> Text(mods[i].chars)])>>
                        ELSE <<>>))

\* lines 227-238: the state is checked first, then the key
keyboard_toggle(m) ==
  /\ Callable(m)
  /\ \E key \in TextInputs, state \in StateInputs :
       DomainCall(m, "keyboard_toggle", [text |-> key, state |-> state],
                  ValidState(state) /\ ValidText(key),
                  <<"keyboard", "toggle", "--key", Text(key.chars), "--state", state>>)

\* lines 308-314
clipboard_write(m) ==
  /\ Callable(m)
  /\ \E text \in TextInputs :
       DomainCall(m, "clipboard_write", [text |-> text], ValidText(text),
                  <<"clipboard", "write", "--text", Text(text.chars)>>)

\* The window names and pids callers pass.
NameInputs == {None, <<"">>, <<"Terminal">>}

PidInputs == {None} \cup {<<p>> : p \in IntInputs}

\* line 280: `if name`
NameGiven(name) == name # None /\ name[1] # ""

\* line 282: `pid and isinstance(pid, int)`, for None or an int
PidGiven(pid) == pid # None /\ pid[1] # 0

\* lines 275-285
window_activate(m) ==
  /\ Callable(m)
  /\ \E name \in NameInputs, pid \in PidInputs :
       DomainCall(m, "window_activate", [name |-> name, pid |-> pid],
                  NameGiven(name) \/ PidGiven(pid),
                  IF NameGiven(name)
                  THEN <<"window", "activate", "--name", name[1]>>
                  ELSE IF PidGiven(pid)
                  THEN <<"window", "activate", "--pid", IntToStr(pid[1])>>
                  ELSE <<>>)

DomainOps ==
  {"mouse_click", "mouse_toggle", "screen_size", "mouse_scroll",
   "keyboard_type", "keyboard_tap", "keyboard_toggle", "clipboard_write",
   "window_activate"}

\* ------------------------------------------------------------ specification
NextOf(m) ==
  \/ Start(m)
  \/ Get(m)
  \/ Run(m)
  \/ Reload1(m)
  \/ StartSignal(m)
  \/ Reload2(m)
  \/ Probe(m)
  \/ Curl(m)
  \/ Chmod(m)
  \/ Except(m)
  \/ Stop(m)
  \/ Enter(m)
  \/ Exit(m)
  \/ mouse_click(m)
  \/ mouse_toggle(m)
  \/ screen_size(m)
  \/ mouse_scroll(m)
  \/ keyboard_type(m)
  \/ keyboard_tap(m)
  \/ keyboard_toggle(m)
  \/ clipboard_write(m)
  \/ window_activate(m)
  \/ Gateway(m)
  \/ Return(m)

Next == \E m \in Sequential : NextOf(m)

Spec == Init /\ [][Next]_vars

\* Two managers configured with the same container name, each calling
\* start() once on its fresh instance, their runtime requests interleaved
\* in every order.
FirstStart(m) == phase[m] = "Uninitialized" /\ Start(m)

StartOf(m) ==
  \/ FirstStart(m)
  \/ Get(m)
  \/ Run(m)
  \/ Reload1(m)
  \/ StartSignal(m)
  \/ Reload2(m)
  \/ Probe(m)
  \/ Curl(m)
  \/ Chmod(m)
  \/ Except(m)

NextConcurrent == \E m \in Managers : StartOf(m)

SpecConcurrent == Init /\ [][NextConcurrent]_vars


\* ------------------------------------------------------------------ claims

\* C1: when start() succeeded on entry of the with statement, every way out
\* of the block (end of the block, early return, a failure raised in it)
\* runs __exit__, which invokes stop(); the manager holds a handle then, so
\* the stop signal is issued.
C1_ExitAlwaysStops ==
  [][\A m \in Managers :
       (scope[m] = "body" /\ scope'[m] # "body")
         => /\ last'[m].op = "exit"
            /\ last'[m].path \in {"normal", "return", "raise"}
            /\ last'[m].stop.site = "exit"
            /\ last'[m].stop.signalled]_vars

C1_Witness ==
  \E m \in Managers :
    /\ last[m].op = "exit"
    /\ last[m].path = "raise"
    /\ last[m].stop.site = "exit"
    /\ last[m].stop.signalled

\* C2: a start() in which any step failed has invoked stop() once, from its
\* handler, before it returned control, and what it raises to the caller is
\* the failure of that step, also when the stop signal of the cleanup failed.
C2_CleanupThenOriginal ==
  \A m \in Managers :
    (last[m].op = "start" /\ (last[m].orig # NoExc \/ last[m].exc # NoExc))
      => /\ last[m].stops = 1
         /\ last[m].stop.site = "cleanup"
         /\ last[m].stop.signalled = (container[m] # 0)
         /\ last[m].exc = last[m].orig
         /\ last[m].exc # NoExc

C2_Witness ==
  \E m \in Managers :
    /\ last[m].op = "start"
    /\ last[m].orig.kind = "BootstrapFailure"
    /\ last[m].stop.sigErr
    /\ last[m].exc = last[m].orig

\* C3 (as claimed): a domain call with valid arguments issued while the
\* session is not Ready (before start() completed, after a failed start(),
\* after stop()) fails with the error of a missing session and makes no
\* attempt to execute a process in the container. The only such failure the
\* code has is the one raised on a None handle at line 141.
C3_FailFastOutsideSession ==
  \A m \in Managers :
    (last[m].op \in DomainOps /\ phase[m] # "Ready"
       /\ last[m].exc.kind # "ValidationError")
      => /\ last[m].exc.kind \in {"UninitializedSession", "AttributeError"}
         /\ ~last[m].attempted

\* C4: a start() whose second refresh, after the one start signal and the
\* fixed wait, reads a status other than running raises StartupFailure with
\* that status; the container is not running when it has returned, and a
\* stop() called next does not raise and leaves it not running.
C4_StartupFailure ==
  \A m \in Managers :
    /\ (last[m].op = "start" /\ last[m].obs2 \notin {"none", "running"})
         => /\ last[m].sigs = 1
            /\ last[m].exc = StartupFailure(last[m].obs2)
            /\ rstatus # "running"
    /\ (last[m].op = "start" /\ last[m].exc.kind = "StartupFailure")
         => /\ last[m].exc.status = last[m].obs2
            /\ last[m].obs2 \notin {"none", "running"}
    /\ (last[m].op = "stop" /\ last[m].before.op = "start"
          /\ last[m].before.kind = "StartupFailure")
         => /\ last[m].exc = NoExc
            /\ rstatus # "running"

C4_Witness ==
  \E m \in Managers :
    /\ last[m].op = "stop"
    /\ last[m].before.op = "start"
    /\ last[m].before.kind = "StartupFailure"
    /\ last[m].stop.sigErr

\* C5: no invocation of stop() raises, whether called directly, from the
\* handler of start() or from __exit__: without a handle it issues no stop
\* signal, with a handle it issues one and absorbs the signal's failure.
C5_StopNeverRaises ==
  \A m \in Managers :
    (last[m].op \in {"stop", "exit"} \/ (last[m].op = "start" /\ last[m].stops > 0))
      => /\ last[m].stop.raised = NoExc
         /\ last[m].stop.signalled = (container[m] # 0)
         /\ last[m].stop.hadHandle = (container[m] # 0)
         /\ (last[m].op = "stop" => last[m].exc = NoExc)

C5_Witness ==
  \E m \in Managers :
    /\ last[m].op = "stop"
    /\ last[m].stop.signalled
    /\ last[m].stop.sigErr
    /\ last[m].exc = NoExc

C5_WitnessNoHandle ==
  \E m \in Managers :
    /\ last[m].op = "stop"
    /\ ~last[m].stop.hadHandle
    /\ ~last[m].stop.signalled

\* C6 (as claimed): whenever start() has returned successfully, the
\* executable at robotgo_cli_path is whole and executable, whatever earlier
\* start() attempts left there.
C6_InstalledOnSuccess ==
  \A m \in Managers :
    (last[m].op = "start" /\ last[m].exc = NoExc) => file = "installed"

\* C7: of two start() calls in succession, the second issues no create
\* request when the first left a handle, both hold the same container when
\* both succeed, one container at most is created, and when the second
\* call's probe reports the tool present the download ran at most once
\* across the two calls, and not in the second.
C7_IdempotentAttach ==
  \A m \in Managers :
    (last[m].op = "start" /\ last[m].before.op = "start")
      => /\ ncreated <= 1
         /\ (last[m].before.cid # 0 => last[m].creates = 0)
         /\ (last[m].before.kind = "none" /\ last[m].exc = NoExc
               => (last[m].found /\ last[m].cid = last[m].before.cid))
         /\ (last[m].probe = "present"
               => (last[m].dl = 0 /\ last[m].before.dl + last[m].dl <= 1))

C7_Witness ==
  \E m \in Managers :
    /\ last[m].op = "start"
    /\ last[m].before.op = "start"
    /\ last[m].before.kind = "none"
    /\ last[m].before.dl = 1
    /\ last[m].exc = NoExc
    /\ last[m].probe = "present"
    /\ last[m].cid = last[m].before.cid

\* C8 (as claimed): a domain call returns a result only when the process
\* exited with code 0, the result being the output without its surrounding
\* whitespace; for every non-zero exit code it raises CommandFailure with
\* the joined command and the decoded output, and returns nothing.
C8_ResultOnlyOnExitZero ==
  \A m \in Managers :
    last[m].op \in DomainOps
      => /\ last[m].returned
              => /\ last[m].spawned /\ last[m].exit_code = 0
                 /\ last[m].exc = NoExc
                 /\ \E i \in 0..Len(last[m].out), j \in 0..Len(last[m].out) :
                      /\ i + j <= Len(last[m].out)
                      /\ \A k \in 1..i : last[m].out[k] \in {" ", "\n", "\t"}
                      /\ \A k \in (Len(last[m].out) - j + 1)..Len(last[m].out) :
                           last[m].out[k] \in {" ", "\n", "\t"}
                      /\ last[m].ret = SubSeq(last[m].out, i + 1, Len(last[m].out) - j)
                      /\ (last[m].ret # <<>>
                            => /\ Head(last[m].ret) \notin {" ", "\n", "\t"}
                               /\ last[m].ret[Len(last[m].ret)] \notin {" ", "\n", "\t"})
         /\ (last[m].spawned /\ last[m].exit_code # 0)
              => /\ ~last[m].returned
                 /\ last[m].exc.kind = "CommandFailure"
                 /\ last[m].exc.cmd = Join(last[m].cmd)

\* C9: mouse_click with a button that is none of left, right, middle,
\* wheelLeft, wheelRight raises ValidationError for either value of double,
\* and no request of it ever reaches the gateway.
C9_ClickRejectsButton ==
  \A m \in Managers :
    /\ (last[m].op = "mouse_click"
          /\ last[m].input.button \notin {"left", "right", "middle", "wheelLeft", "wheelRight"})
         => /\ last[m].exc.kind = "ValidationError"
            /\ ~last[m].attempted
            /\ ~last[m].spawned
    /\ req[m].op = "mouse_click"
         => req[m].input.button \in {"left", "right", "middle", "wheelLeft", "wheelRight"}

C9_Witness ==
  \E m \in Managers :
    /\ last[m].op = "mouse_click"
    /\ last[m].input.button = "Left"
    /\ last[m].input.double
    /\ last[m].exc.kind = "ValidationError"
    /\ phase[m] = "Ready"

\* C10 (as claimed): mouse_toggle with a button that is none of left, right,
\* middle, wheelLeft, wheelRight raises ValidationError, also with a valid
\* state, and no request of it ever reaches the gateway.
C10_ToggleRejectsButton ==
  \A m \in Managers :
    /\ (last[m].op = "mouse_toggle"
          /\ last[m].input.button \notin {"left", "right", "middle", "wheelLeft", "wheelRight"})
         => /\ last[m].exc.kind = "ValidationError"
            /\ ~last[m].attempted
    /\ req[m].op = "mouse_toggle"
         => req[m].input.button \in {"left", "right", "middle", "wheelLeft", "wheelRight"}

\* C11 (as claimed): window_activate executes a command only with a name or
\* a strictly positive pid; with no name and a pid that is absent, zero or
\* negative, no exec is attempted and no process is executed. (The kind of
\* the failure is left open here, so that a violation is an execution.)
C11_ActivateNeedsNameOrPositivePid ==
  \A m \in Managers :
    (/\ last[m].op = "window_activate"
     /\ (last[m].input.name = <<>> \/ last[m].input.name[1] = "")
     /\ (last[m].input.pid = <<>> \/ last[m].input.pid[1] <= 0))
      => /\ last[m].exc # NoExc
         /\ ~last[m].attempted
         /\ ~last[m].spawned

\* C12: mouse_scroll with a number of steps that is zero or negative raises
\* ValidationError for each of the directions up, down, left and right, and
\* no request of it ever reaches the gateway.
C12_ScrollRejectsNonPositiveSteps ==
  \A m \in Managers :
    /\ (/\ last[m].op = "mouse_scroll"
        /\ last[m].input.direction \in {"up", "down", "left", "right"}
        /\ last[m].input.steps <= 0)
         => /\ last[m].exc.kind = "ValidationError"
            /\ ~last[m].attempted
            /\ ~last[m].spawned
    /\ req[m].op = "mouse_scroll" => req[m].input.steps >= 1

C12_Witness ==
  \E m \in Managers :
    /\ last[m].op = "mouse_scroll"
    /\ last[m].input.direction = "left"
    /\ last[m].input.steps = 0
    /\ last[m].exc.kind = "ValidationError"
    /\ phase[m] = "Ready"

C15_ProbeBeforeReady ==
  \A m \in Managers :
    (last[m].op = "start" /\ last[m].exc = NoExc)
      => /\ phase[m] = "Ready"
         /\ \E i \in 1..Len(last[m].trace) : last[m].trace[i] = "probe"
         /\ last[m].probe \in {"present", "absent"}
         /\ last[m].trace[Len(last[m].trace)] \in {"probe", "chmod"}

C15_Witness ==
  \E m \in Managers :
    /\ last[m].op = "start"
    /\ last[m].exc = NoExc
    /\ last[m].lookup = "found"
    /\ last[m].creates = 0
    /\ last[m].obs1 = "exited"
    /\ last[m].probe = "present"

\* C16 (as claimed): the installer's steps run in the order probe, download,
\* mark-executable; the download only after the probe found the path absent,
\* the mark-executable step only after the download exited with 0; a
\* non-zero exit of the download or of the mark-executable step raises
\* BootstrapFailure with the output of that step, and no later step runs.
C16_InstallerOrder ==
  \A m \in Managers :
    LET call == IF last[m].op = "start" THEN last[m] ELSE sc[m]
        IsInstallerStep(x) == x \in {"probe", "curl", "chmod"}
        inst == SelectSeq(call.trace, IsInstallerStep)
    IN  /\ inst \in {<<>>, <<"probe">>, <<"probe", "curl">>, <<"probe", "curl", "chmod">>}
        /\ Len(inst) >= 2 => call.probe = "absent"
        /\ Len(inst) = 3 => call.failed.step # "curl"
        /\ call.failed.step # "none"
             => /\ call.failed.exit_code # 0
                /\ inst[Len(inst)] = call.failed.step
                /\ call.orig.kind = "BootstrapFailure"
                /\ call.orig.cmd = call.failed.step
                /\ call.orig.out = call.failed.out
                /\ last[m].op = "start" => last[m].exc = call.orig

\* C17: start() sends a create request exactly when its lookup reported
\* NotFound; when the lookup found a container, of whatever status, start()
\* holds a handle to it and has sent no create request; no start() sends
\* more than one create request.
C17_CreateIffNotFound ==
  \A m \in Managers :
    LET call == IF last[m].op = "start" THEN last[m] ELSE sc[m]
        runs == {i \in 1..Len(call.trace) : call.trace[i] = "run"}
    IN  /\ call.creates <= 1
        /\ Cardinality(runs) = call.creates
        /\ call.creates = 1 => call.lookup = "NotFound"
        /\ call.lookup = "found" => (call.creates = 0 /\ container[m] # 0)
        /\ (last[m].op = "start" /\ last[m].lookup = "NotFound") => last[m].creates = 1

C17_Witness ==
  \E m \in Managers :
    /\ last[m].op = "start"
    /\ last[m].exc = NoExc
    /\ last[m].lookup = "found"
    /\ last[m].obs1 = "created"
    /\ last[m].creates = 0
    /\ ncreated = 0

\* C18: a start() takes each of its steps at most once, so it ends, Ready or
\* Failed, after at most one start signal and at most two refreshes; it
\* sends the start signal only after a first refresh that read a status
\* other than running, and reads the status again exactly once after a
\* start signal that did not fail; a call in progress always has a next
\* step.
C18_BoundedStart ==
  \A m \in Managers :
    LET call == IF last[m].op = "start" THEN last[m] ELSE sc[m]
        at(name) == {i \in 1..Len(call.trace) : call.trace[i] = name}
    IN  /\ \A i \in 1..Len(call.trace), j \in 1..Len(call.trace) :
             call.trace[i] = call.trace[j] => i = j
        /\ Cardinality(at("startsig")) <= 1 /\ call.sigs <= 1
        /\ Cardinality(at("reload1") \cup at("reload2")) <= 2
        /\ at("startsig") # {}
             => /\ call.obs1 \notin {"none", "running"}
                /\ \A i \in at("startsig") : i > 1 /\ call.trace[i - 1] = "reload1"
        /\ \A i \in at("reload2") : i > 1 /\ call.trace[i - 1] = "startsig"
        /\ \A i \in at("startsig") :
             i < Len(call.trace) => call.trace[i + 1] \in {"reload2", "except"}
        /\ last[m].op = "start" => phase[m] \in {"Ready", "Failed"}
        /\ pc[m] \notin {"idle", "exec", "done"} => ENABLED NextOf(m)

C18_Witness ==
  \E m \in Managers :
    /\ last[m].op = "start"
    /\ last[m].exc = NoExc
    /\ last[m].sigs = 1
    /\ last[m].obs1 = "exited"
    /\ last[m].obs2 = "running"
    /\ \E i \in 1..Len(last[m].trace) : last[m].trace[i] = "reload2"

\* C19: no step of a domain call (its validation, its command in the
\* gateway, its return to the caller), whether it succeeds, is rejected or
\* fails, changes the handle or its cached status, creates, starts or stops
\* the container, or changes the session state and the with-block; after a
\* failed call the manager is idle again and takes the next call.
C19_DomainCallsLeaveLifecycle ==
  [][\A m \in Managers :
       (\/ pc'[m] \in {"exec", "done"}
        \/ (pc[m] = "done" /\ pc'[m] = "idle" /\ last'[m].op = "none"))
         => /\ container'[m] = container[m]
            /\ hstatus'[m] = hstatus[m]
            /\ cid' = cid /\ ncreated' = ncreated /\ rstatus' = rstatus
            /\ phase'[m] = phase[m]
            /\ scope'[m] = scope[m]
            /\ sc'[m] = sc[m]
            /\ pc'[m] = "idle" => (scope'[m] \in {"out", "body"} /\ req'[m] = NoPending)]_vars

C19_Witness ==
  \E m \in Managers :
    /\ pc[m] = "done"
    /\ last[m].op = "window_activate"
    /\ last[m].exc.kind = "CommandFailure"
    /\ container[m] # 0
    /\ rstatus = "running"
    /\ phase[m] = "Ready"
    /\ scope[m] = "body"

\* C20: when the start() of __enter__ fails, the with statement is left
\* without its body and without __exit__: while the manager is entering no
\* domain command is sent, the body is entered only when start() returned
\* normally, and a failed entry ends outside the block with stop() called
\* exactly once, by the cleanup of start().
C20_FailedEnterSkipsBody ==
  [][\A m \in Managers :
       scope[m] = "entering"
         => /\ req'[m] = NoPending /\ pc'[m] \notin {"exec", "done"}
            /\ scope'[m] = "body" => (last'[m].op = "start" /\ last'[m].exc = NoExc)
            /\ scope'[m] = "out"
                 => /\ last'[m].op = "start" /\ last'[m].via = "enter"
                    /\ last'[m].exc # NoExc
                    /\ last'[m].stops = 1
                    /\ last'[m].stop.site = "cleanup"
                    /\ Cardinality({i \in 1..Len(last'[m].trace) :
                                      last'[m].trace[i] = "except"}) = 1
                    /\ pc'[m] = "idle"]_vars

C20_Witness ==
  \E m \in Managers :
    /\ last[m].op = "start"
    /\ last[m].via = "enter"
    /\ last[m].exc.kind = "StartupFailure"
    /\ last[m].stops = 1
    /\ last[m].stop.signalled
    /\ scope[m] = "out"
    /\ phase[m] = "Failed"

\* C21: when the body of the with block raised, __exit__ runs stop() and the
\* with statement then raises that same failure to the caller: it is never
\* suppressed and never replaced, also when the stop signal failed.
C21_BodyFailurePropagates ==
  \A m \in Managers :
    (last[m].op = "exit" /\ last[m].bodyExc # NoExc)
      => /\ last[m].path = "raise"
         /\ last[m].stop.site = "exit"
         /\ last[m].stop.raised = NoExc
         /\ last[m].exc = last[m].bodyExc
         /\ scope[m] = "out"

C21_Witness ==
  \E m \in Managers :
    /\ last[m].op = "exit"
    /\ last[m].bodyExc.kind = "CommandFailure"
    /\ last[m].stop.signalled
    /\ last[m].stop.sigErr
    /\ last[m].exc = last[m].bodyExc
    /\ rstatus = "running"

\* C22: when two managers of the same container name run start()
\* concurrently, in every interleaving of their requests at most one
\* container of that name exists and at most one is created, and every
\* manager whose start() returned normally holds a handle to that one
\* container, so any two of them hold the same.
C22_OneContainerPerName ==
  /\ ncreated <= 1
  /\ cid <= 1
  /\ \A m \in Managers :
       (last[m].op = "start" /\ last[m].exc = NoExc)
         => /\ container[m] # 0
            /\ container[m] = cid
            /\ last[m].cid = cid
  /\ \A m \in Managers, n \in Managers :
       (/\ last[m].op = "start" /\ last[m].exc = NoExc
        /\ last[n].op = "start" /\ last[n].exc = NoExc)
         => container[m] = container[n]

\* Both managers looked the name up before either created the container;
\* one created it, the other was refused, and both calls have ended.
C22_Witness ==
  \E m \in Managers, n \in Managers :
    /\ m # n
    /\ last[m].op = "start" /\ last[m].exc = NoExc
    /\ last[m].lookup = "NotFound" /\ last[m].creates = 1
    /\ last[n].op = "start" /\ last[n].exc.kind = "APIError"
    /\ last[n].lookup = "NotFound" /\ last[n].creates = 1
    /\ last[n].cid = 0
    /\ ncreated = 1

====
